---- MODULE Spec2Model ----
(***************************************************************************)
(* Credential-and-token lifecycle of the auth microservice:                *)
(* AuthController (message handlers) -> AuthService (signUp, login,        *)
(* validateToken) -> bcrypt, JwtService and the users table.               *)
(*                                                                         *)
(* A handler is split at its awaits.  Its synchronous prefix and its first  *)
(* store query form one step (nothing is written before that query         *)
(* answers); each later bcrypt call, store insert or store lookup is a     *)
(* step of its own, so concurrent handlers interleave between them.        *)
(***************************************************************************)
EXTENDS Integers, Sequences, FiniteSets, TLC

(* ---------------------------- bounds ----------------------------------- *)
MaxAccounts == 2    \* rows ever inserted into the users table
MaxTime == 2        \* clock ticks (one tick = one hour)
MaxTokens == 1      \* tokens ever issued by login
MaxSalt == 0        \* salts bcrypt may draw: 0..MaxSalt

(* ----------------------- program constants ----------------------------- *)
BcryptMaxBytes == 72          \* bcrypt reads only the first 72 bytes of a key
DefaultExpiresIn == 1         \* '1h'
StatusBadRequest == 400
StatusUnauthorized == 401

NULL == [null |-> TRUE]       \* null
Unset == "<unset>"            \* an environment variable that is not set
FallbackSecret == "your_jwt_secret_change_me"
DefaultRoles == <<"user">>

\* handler invocations that may be in flight at once
Procs == {"p1", "p2"}
Ids == 1..MaxAccounts
Salts == 0..MaxSalt

(* ------------------------- request inputs ------------------------------ *)
Usernames == {"alice", "bob"}
Emails == {"alice@x.com", "bob@x.com"}
SignUpPasswords == {"secret1"}
Passwords == {"", "secret1", "wrong12"}
RoleLists == {<<"user">>, <<"admin">>}

\* signup requests with every field filled in; roles may be left out, and may
\* be supplied as the empty list
FilledSignUpDtos ==
  [username : Usernames, email : Emails, password : SignUpPasswords]
    \cup [username : Usernames, email : Emails, password : SignUpPasswords,
          roles : {<<"admin">>}]
    \cup {[username |-> "bob", email |-> "bob@x.com", password |-> "secret1",
           roles |-> <<>>]}

\* signup requests with one required field empty
EmptyFieldSignUpDtos ==
  { [username |-> "", email |-> "alice@x.com", password |-> "secret1"],
    [username |-> "alice", email |-> "", password |-> "secret1"],
    [username |-> "alice", email |-> "alice@x.com", password |-> ""] }

SignUpDtos == FilledSignUpDtos \cup EmptyFieldSignUpDtos

LoginDtos == [email : Emails, password : Passwords]

\* passwords longer than bcrypt's key: 72 bytes in common, then one more
Pad8 == "aaaaaaaa"
Pad72 == Pad8 \o Pad8 \o Pad8 \o Pad8 \o Pad8 \o Pad8 \o Pad8 \o Pad8 \o Pad8
LongPasswords == {Pad72 \o "X", Pad72 \o "Y"}

\* signup and login requests whose passwords may be long
LongSignUpDtos ==
  [username : Usernames, email : Emails, password : SignUpPasswords \cup LongPasswords]
LongLoginDtos == [email : Emails, password : {"secret1", "wrong12"} \cup LongPasswords]

(* --------------------------- environment ------------------------------- *)
\* <<JWT_SECRET, JWT_EXPIRES_IN in hours (0 when not set)>>
Environments == {<<"prod_secret", 0>>}

\* the deployments told apart by what they configure: nothing but the secret,
\* the secret and a TTL of two hours, nothing at all
ConfiguredEnvironments == {<<"prod_secret", 0>>, <<"prod_secret", 2>>, <<Unset, 0>>}

VARIABLES
  users,      \* the users table: a set of rows
  nextId,     \* next primary key the store hands out
  now,        \* the clock, in hours
  jwt,        \* JwtModule options, fixed at startup
  req,        \* per invocation in flight: handler, position, locals
  reply,      \* the invocation the last step completed, with its response
  issued,     \* history: every token login has returned
  signups,    \* history: what the signUp that created each row was given
  verified    \* history: ids of the rows whose password bcrypt accepted at login

vars == <<users, nextId, now, jwt, req, reply, issued, signups, verified>>

(* ------------------------------ bcrypt --------------------------------- *)
Min(a, b) == IF a < b THEN a ELSE b

\* the key material bcrypt actually reads
BcryptKey(password) == SubSeq(password, 1, Min(Len(password), BcryptMaxBytes))

\* a createUser that stores the password as it was submitted
BcryptHashSkipped(password, salt) ==
  [alg |-> "plain", salt |-> 0, digest |-> <<0, password>>]

\* bcrypt.hash(password, SALT_ROUNDS) with the salt it drew
BcryptHash(password, salt) ==
  [alg |-> "2b", salt |-> salt, digest |-> <<salt, BcryptKey(password)>>]

\* bcrypt.compare(password, hashed)
BcryptCompare(password, hashed) ==
  /\ hashed.alg = "2b"
  /\ hashed.digest = <<hashed.salt, BcryptKey(password)>>

(* --------------------------- JwtService -------------------------------- *)
\* JwtModule.registerAsync useFactory: the options built from the environment
JwtOptions(envSecret, envExpiresIn) ==
  [secret    |-> IF envSecret = Unset THEN FallbackSecret ELSE envSecret,
   expiresIn |-> IF envExpiresIn = 0 THEN DefaultExpiresIn ELSE envExpiresIn]

\* a string that is no JWT at all
Garbage ==
  [kind |-> "garbage", userId |-> 0, roles |-> <<>>, iat |-> 0, exp |-> 0, sig |-> ""]

\* a sign that embeds the subject and leaves the roles out
JwtSignSubjectOnly(payload, secret, expiresIn, clock) ==
  [kind |-> "jwt", userId |-> payload.userId, roles |-> <<>>,
   iat |-> clock, exp |-> clock + expiresIn, sig |-> secret]

\* jwtService.sign(payload): the claim, iat/exp and an HMAC under the secret
JwtSign(payload, secret, expiresIn, clock) ==
  [kind |-> "jwt", userId |-> payload.userId, roles |-> payload.roles,
   iat |-> clock, exp |-> clock + expiresIn, sig |-> secret]

\* a verify called with ignoreExpiration
JwtVerifyErrorIgnoringExpiry(token, secret, clock) ==
  IF token.kind # "jwt" THEN "jwt malformed"
  ELSE IF token.sig # secret THEN "invalid signature"
  ELSE ""

\* jwtService.verify(token): "" when it returns the payload, else the message
\* of the error it throws
JwtVerifyError(token, secret, clock) ==
  IF token.kind # "jwt" THEN "jwt malformed"
  ELSE IF token.sig # secret THEN "invalid signature"
  ELSE IF clock >= token.exp THEN "jwt expired"
  ELSE ""

\* the decoded payload verify returns: the claim, with iat and exp
JwtDecoded(token) ==
  [userId |-> token.userId, roles |-> token.roles, iat |-> token.iat, exp |-> token.exp]

\* well-formed tokens signed by someone who is not this service
ForgedTokens ==
  { [kind |-> "jwt", userId |-> i, roles |-> <<"admin">>, iat |-> 0,
     exp |-> MaxTime + 1, sig |-> k] : i \in Ids, k \in {"guessed_key", FallbackSecret} }

(* ------------------------------ errors --------------------------------- *)
\* an error object: statusCode 0 stands for "has no statusCode property"
NoError == [name |-> "", message |-> "", statusCode |-> 0]

ErrMissingFields ==
  [name |-> "Error", statusCode |-> 0,
   message |-> "Missing required fields: email, username, password"]

ErrEmailInUse ==
  [name |-> "Error", statusCode |-> 0, message |-> "Email already in use"]

ErrInvalidCredentials ==
  [name |-> "UnauthorizedException", statusCode |-> 0, message |-> "Invalid credentials"]

\* what the store raises when a unique index rejects an insert
ErrUniqueConstraint(field) ==
  [name |-> "PrismaClientKnownRequestError", statusCode |-> 0,
   message |-> "Unique constraint failed on the fields: (" \o field \o ")"]

\* what the store raises when a query cannot be carried out
ErrStoreDown ==
  [name |-> "PrismaClientInitializationError", statusCode |-> 0,
   message |-> "Can't reach database server"]

ErrJwt(message) == [name |-> "JsonWebTokenError", statusCode |-> 0, message |-> message]

\* errors that carry a statusCode property of their own
ErrWithStatus ==
  { [name |-> "ServiceUnavailableError", statusCode |-> 503, message |-> "Service Unavailable"],
    [name |-> "ConflictError", statusCode |-> 409, message |-> "Conflict"] }

\* what a call of the service may throw at a handler
ServiceErrors ==
  {ErrMissingFields, ErrEmailInUse, ErrInvalidCredentials, ErrStoreDown,
   ErrUniqueConstraint("email"), ErrUniqueConstraint("username"),
   ErrJwt("jwt expired")} \cup ErrWithStatus

(* ----------------------------- responses ------------------------------- *)
NoResp == [kind |-> "none", statusCode |-> 0, message |-> "", error |-> "", body |-> NULL]

\* the handler returns a value
Reply(body) == [kind |-> "ok", statusCode |-> 0, message |-> "", error |-> "", body |-> body]

\* the handler throws RpcException({statusCode, message, error})
RpcException(statusCode, message, error) ==
  [kind |-> "error", statusCode |-> statusCode, message |-> message, error |-> error,
   body |-> NULL]

\* a controller that answers a failed signUp with an empty success value
SignUpCatchSwallowed(e) == Reply(NULL)

\* AuthController.signUp, catch block
SignUpCatch(e) ==
  RpcException(IF e.statusCode # 0 THEN e.statusCode ELSE StatusBadRequest,
               e.message, "SignupError")

\* a login handler that answers 401 whatever the error carries
LoginCatchFixedStatus(e) == RpcException(StatusUnauthorized, e.message, "LoginError")

\* AuthController.login, catch block
LoginCatch(e) ==
  RpcException(IF e.statusCode # 0 THEN e.statusCode ELSE StatusUnauthorized,
               e.message, "LoginError")

\* AuthController.validateToken, catch block
ValidateCatch(e) == RpcException(StatusUnauthorized, e.message, "TokenValidationError")

(* ----------------------------- the store ------------------------------- *)
StoreOutcomes == {"ok", "down"}

\* prisma.user.findFirst({ where: { email } })
FindByEmail(email) == {u \in users : u.email = email}

\* prisma.user.findUnique({ where: { id } })
FindById(id) == {u \in users : u.id = id}

\* a users table without its unique indexes
UniqueViolationsNone(username, email) == {}

\* a users table whose only unique index is the one on email
UniqueViolationsEmailOnly(username, email) ==
  {f \in {"email"} : \E u \in users : u.email = email}

\* the unique indexes an insert of (username, email) would violate
UniqueViolations(username, email) ==
  {f \in {"username", "email"} :
     \E u \in users : IF f = "username" THEN u.username = username ELSE u.email = email}

\* ids the store has handed out and no longer holds
DeletedIds == {i \in 1..(nextId - 1) : FindById(i) = {}}

(* --------------------------- invocations ------------------------------- *)
NoHash == [alg |-> "", salt |-> 0, digest |-> <<0, "">>]

\* user: the rows the handler's lookup returned (none, or one);
\* finds, hashes, creates: the store lookups, bcrypt.hash calls and inserts the
\* invocation has awaited; log: the log records written while handling it
Idle ==
  [op |-> "none", pc |-> "idle", dto |-> NULL, user |-> {}, hashed |-> NoHash,
   finds |-> 0, hashes |-> 0, creates |-> 0, log |-> <<>>,
   thrown |-> NoError, caught |-> NoError, resp |-> NoResp]

\* a log record: who wrote it, its text, and the object printed with it
LogRecord(by, text, data) == [by |-> by, text |-> text, data |-> data]

\* the fields of the request the controller and the service print on receipt
ReceiptFields(op, dto) ==
  IF op = "signUp" THEN [username |-> dto.username, email |-> dto.email]
  ELSE IF op = "login" THEN [email |-> dto.email]
  ELSE NULL

\* what is logged when a handler receives a message: LoggingInterceptor prints
\* the payload, the controller its "Received" line
ReceiptLog(op, dto) ==
  IF op \in {"signUp", "login", "validateToken"}
    THEN << LogRecord("LoggingInterceptor", "Payload:", dto),
            LogRecord("AuthController", "Received message", ReceiptFields(op, dto)) >>
    ELSE << >>

\* an invocation of handler op that has just received dto
New(op, dto) ==
  [Idle EXCEPT !.op = op, !.pc = "receive", !.dto = dto, !.log = ReceiptLog(op, dto)]

\* a step that completes no invocation
Continue(p, r) ==
  /\ req' = [req EXCEPT ![p] = r]
  /\ reply' = Idle

\* a step that completes invocation r of p: the response goes to the caller;
\* reply.pc is the step the invocation ended in
Complete(p, r) ==
  /\ req' = [req EXCEPT ![p] = Idle]
  /\ reply' = [r EXCEPT !.hashed = NoHash]

\* the service throws e and the controller's catch block answers; the
\* controller logs the error's message, LoggingInterceptor the message of the
\* exception thrown at it
Throw(p, r, e, response) ==
  Complete(p, [r EXCEPT !.thrown = e, !.resp = response,
                        !.log = @ \o << LogRecord("AuthController", e.message,
                                                  ReceiptFields(r.op, r.dto)),
                                        LogRecord("LoggingInterceptor", response.message,
                                                  NULL) >>])

\* the service returns body and the controller passes it on;
\* LoggingInterceptor prints the response
Return(p, r, body) ==
  Complete(p, [r EXCEPT !.resp = Reply(body),
                        !.log = @ \o << LogRecord("LoggingInterceptor", "Response sent:",
                                                  body) >>])

\* r once it has awaited one more store lookup / one more insert
Found(r) == [r EXCEPT !.finds = @ + 1]
Created(r) == [r EXCEPT !.creates = @ + 1]

\* r once bcrypt.hash has returned h to it
Hashed(r, h) == [r EXCEPT !.hashes = @ + 1, !.hashed = h]

\* a handler that returns the row as the store gave it
PublicWholeRow(u) == u

\* the public fields signUp and login return
Public(u) == [id |-> u.id, username |-> u.username, email |-> u.email, roles |-> u.roles]

Init ==
  /\ users = {}
  /\ nextId = 1
  /\ now = 0
  /\ jwt \in {JwtOptions(e[1], e[2]) : e \in Environments}
  /\ req = [p \in Procs |-> Idle]
  /\ reply = Idle
  /\ issued = {}
  /\ signups = {}
  /\ verified = {}

\* startup under any of the deployments
InitConfigured ==
  /\ users = {}
  /\ nextId = 1
  /\ now = 0
  /\ jwt \in {JwtOptions(e[1], e[2]) : e \in ConfiguredEnvironments}
  /\ req = [p \in Procs |-> Idle]
  /\ reply = Idle
  /\ issued = {}
  /\ signups = {}
  /\ verified = {}

(* ------------------------------ signUp --------------------------------- *)
\* a signUp that checks the email only
MissingFieldsEmailOnly(dto) == dto.email = ""

\* signUp: !email || !username || !password
MissingFields(dto) == dto.email = "" \/ dto.username = "" \/ dto.password = ""

\* a signUp that looks for the username instead of the email
ExistingUserByUsername(dto) == \E u \in users : u.username = dto.username

\* a signUp that never looks at what findFirst returned
ExistingUserIgnored(dto) == FALSE

\* signUp's existence check on the rows findFirst returned
ExistingUser(dto) == FindByEmail(dto.email) # {}

\* the handler receives the message; signUp checks the required fields and
\* awaits prisma.user.findFirst({ where: { email } })
SignUpReceive(p, dto, outcome) ==
  /\ req[p].pc = "idle"
  /\ LET r == New("signUp", dto)
         q == Found(r)
     IN IF MissingFields(dto) THEN Throw(p, r, ErrMissingFields, SignUpCatch(ErrMissingFields))
        ELSE IF outcome = "down" THEN Throw(p, q, ErrStoreDown, SignUpCatch(ErrStoreDown))
        ELSE IF ExistingUser(dto) THEN Throw(p, q, ErrEmailInUse, SignUpCatch(ErrEmailInUse))
        ELSE Continue(p, [q EXCEPT !.pc = "su_hash"])
  /\ UNCHANGED <<users, nextId, now, jwt, issued, signups, verified>>

\* createUser: hashedPassword = await bcrypt.hash(password, SALT_ROUNDS)
SignUpHash(p, salt) ==
  /\ req[p].pc = "su_hash"
  /\ Continue(p, [Hashed(req[p], BcryptHash(req[p].dto.password, salt))
                    EXCEPT !.pc = "su_create"])
  /\ UNCHANGED <<users, nextId, now, jwt, issued, signups, verified>>

\* a createUser whose default parameter is the empty list
RolesOrDefaultEmpty(dto) == IF "roles" \in DOMAIN dto THEN dto.roles ELSE <<>>

\* a createUser that stores ['user'] whatever it is given
RolesAlwaysDefault(dto) == DefaultRoles

\* createUser's default parameter: roles = ['user']
RolesOrDefault(dto) == IF "roles" \in DOMAIN dto THEN dto.roles ELSE DefaultRoles

\* createUser: await prisma.user.create({ data }), then signUp's return
SignUpCreate(p, outcome) ==
  /\ req[p].pc = "su_create"
  /\ LET dto == req[p].dto
         q == Created(req[p])
         violated == UniqueViolations(dto.username, dto.email)
         row == [id |-> nextId, username |-> dto.username, email |-> dto.email,
                 password |-> req[p].hashed, roles |-> RolesOrDefault(dto)]
     IN IF outcome = "down"
          THEN /\ Throw(p, q, ErrStoreDown, SignUpCatch(ErrStoreDown))
               /\ UNCHANGED <<users, nextId, signups>>
        ELSE IF violated # {}
          THEN /\ \E f \in violated :
                    Throw(p, q, ErrUniqueConstraint(f),
                          SignUpCatch(ErrUniqueConstraint(f)))
               /\ UNCHANGED <<users, nextId, signups>>
        ELSE /\ nextId <= MaxAccounts
             /\ users' = users \cup {row}
             /\ nextId' = nextId + 1
             /\ signups' = signups \cup
                  {[id |-> nextId, password |-> dto.password,
                    rolesOmitted |-> "roles" \notin DOMAIN dto]}
             /\ Return(p, q, Public(row))
  /\ UNCHANGED <<now, jwt, issued, verified>>

(* ------------------------------- login --------------------------------- *)
\* a login that tells the caller the email is not registered
LoginUserNotFoundRevealed ==
  [name |-> "NotFoundException", statusCode |-> 0, message |-> "User not found"]

\* login: the error thrown when no row has the email
LoginUserNotFound == ErrInvalidCredentials

\* the handler receives the message; login awaits
\* prisma.user.findUnique({ where: { email }, select })
LoginReceive(p, credential, outcome) ==
  /\ req[p].pc = "idle"
  /\ LET r == Found(New("login", credential))
     IN IF outcome = "down" THEN Throw(p, r, ErrStoreDown, LoginCatch(ErrStoreDown))
        ELSE IF FindByEmail(credential.email) = {}
          THEN Throw(p, r, LoginUserNotFound, LoginCatch(LoginUserNotFound))
        ELSE Continue(p, [r EXCEPT !.pc = "lg_compare",
                                   !.user = FindByEmail(credential.email)])
  /\ UNCHANGED <<users, nextId, now, jwt, issued, signups, verified>>

\* a login that never looks at the outcome of bcrypt.compare
IsPasswordValidUnchecked(password, user) == TRUE

\* a login that lets an account in only the first time
IsPasswordValidOnce(password, user) ==
  BcryptCompare(password, user.password) /\ user.id \notin verified

\* isPasswordValid = await bcrypt.compare(password, user.password)
IsPasswordValid(password, user) == BcryptCompare(password, user.password)

\* a service that keeps the row it looked up in a field all invocations share:
\* the payload is built from the row the latest lookup left there
LoginPayloadShared(user) ==
  LET held == UNION {req[q].user : q \in Procs}
      last == CHOOSE u \in held : \A v \in held : u.id >= v.id
  IN [userId |-> last.id, roles |-> last.roles]

\* login: the JWT payload
LoginPayload(user) == [userId |-> user.id, roles |-> user.roles]

\* the bcrypt.compare step, then sign and return
LoginCompare(p) ==
  /\ req[p].pc = "lg_compare"
  /\ LET user == CHOOSE u \in req[p].user : TRUE
         token == JwtSign(LoginPayload(user), jwt.secret, jwt.expiresIn, now)
     IN IF ~IsPasswordValid(req[p].dto.password, user)
          THEN /\ Throw(p, req[p], ErrInvalidCredentials, LoginCatch(ErrInvalidCredentials))
               /\ UNCHANGED <<issued, verified>>
        ELSE /\ token \in issued \/ Cardinality(issued) < MaxTokens
             /\ issued' = issued \cup {token}
             /\ verified' = verified \cup
                  (IF BcryptCompare(req[p].dto.password, user.password)
                     THEN {user.id} ELSE {})
             /\ Return(p, req[p], [token |-> token, user |-> Public(user)])
  /\ UNCHANGED <<users, nextId, now, jwt, signups>>

(* --------------------------- validateToken ----------------------------- *)
InvalidResult == [valid |-> FALSE, user |-> NULL]

\* a validateToken whose catch block rethrows to the controller
ValidateTokenOnErrorRethrown(e) == ValidateCatch(e)

\* a validateToken that tells the caller why the token was refused
ValidateTokenOnErrorExplained(e) ==
  Reply([valid |-> FALSE, user |-> NULL, reason |-> e.message])

\* validateToken's catch block: what the handler answers once e is caught
ValidateTokenOnError(e) == Reply(InvalidResult)

\* the draft that answers with the roles embedded in the token
ValidateTokenResultStale(decoded, found) ==
  IF found = {} THEN InvalidResult
  ELSE [valid |-> TRUE, user |-> [userId |-> decoded.userId, roles |-> decoded.roles]]

\* a validateToken that trusts the token without looking at the row
ValidateTokenResultUnchecked(decoded, found) ==
  [valid |-> TRUE, user |-> [userId |-> decoded.userId, roles |-> decoded.roles]]

\* a validateToken whose lookup has no where clause: it answers with the
\* newest row of the table
ValidateTokenResultAnyRow(decoded, found) ==
  IF users = {} THEN InvalidResult
  ELSE LET user == CHOOSE u \in users : \A v \in users : u.id >= v.id
       IN [valid |-> TRUE, user |-> [userId |-> user.id, roles |-> user.roles]]

\* validateToken: the result once the row lookup has answered
ValidateTokenResult(decoded, found) ==
  IF found = {} THEN InvalidResult
  ELSE LET user == CHOOSE u \in found : TRUE
       IN [valid |-> TRUE, user |-> [userId |-> user.id, roles |-> user.roles]]

\* tokens a caller can present
PresentableTokens == issued \cup {Garbage} \cup ForgedTokens

\* the handler receives the message; decoded = jwtService.verify(token)
ValidateReceive(p, token) ==
  /\ req[p].pc = "idle"
  /\ LET r == New("validateToken", [token |-> token])
         why == JwtVerifyError(token, jwt.secret, now)
     IN IF why # ""
          THEN Complete(p, [r EXCEPT !.caught = ErrJwt(why),
                                     !.resp = ValidateTokenOnError(ErrJwt(why))])
        ELSE Continue(p, [r EXCEPT !.pc = "vt_findUnique"])
  /\ UNCHANGED <<users, nextId, now, jwt, issued, signups, verified>>

\* user = await prisma.user.findUnique({ where: { id: decoded.userId }, select })
ValidateFindUnique(p, outcome) ==
  /\ req[p].pc = "vt_findUnique"
  /\ LET decoded == JwtDecoded(req[p].dto.token)
         found == FindById(decoded.userId)
     IN IF outcome = "down"
          THEN Complete(p, [Found(req[p]) EXCEPT !.caught = ErrStoreDown,
                                                 !.resp = ValidateTokenOnError(ErrStoreDown)])
        ELSE Return(p, [Found(req[p]) EXCEPT !.user = found],
                    ValidateTokenResult(decoded, found))
  /\ UNCHANGED <<users, nextId, now, jwt, issued, signups, verified>>

(* ---------------------- outside the service ---------------------------- *)
\* time passes
Tick ==
  /\ now < MaxTime
  /\ now' = now + 1
  /\ reply' = Idle
  /\ UNCHANGED <<users, nextId, jwt, req, issued, signups, verified>>

\* a row of the users table is deleted
DeleteUser(id) ==
  /\ FindById(id) # {}
  /\ users' = users \ FindById(id)
  /\ signups' = {g \in signups : g.id # id}
  /\ reply' = Idle
  /\ UNCHANGED <<nextId, now, jwt, req, issued, verified>>

\* the roles column of a row is rewritten
SetRoles(id, roles) ==
  /\ \E u \in FindById(id) :
       /\ u.roles # roles
       /\ users' = (users \ {u}) \cup {[u EXCEPT !.roles = roles]}
  /\ reply' = Idle
  /\ UNCHANGED <<nextId, now, jwt, req, issued, signups, verified>>

\* the steps of the three handlers, for invocation p
SignUpStep(p) ==
  \/ \E dto \in SignUpDtos, o \in StoreOutcomes : SignUpReceive(p, dto, o)
  \/ \E salt \in Salts : SignUpHash(p, salt)
  \/ \E o \in StoreOutcomes : SignUpCreate(p, o)

LoginStep(p) ==
  \/ \E c \in LoginDtos, o \in StoreOutcomes : LoginReceive(p, c, o)
  \/ LoginCompare(p)

ValidateStep(p) ==
  \/ \E t \in PresentableTokens : ValidateReceive(p, t)
  \/ \E o \in StoreOutcomes : ValidateFindUnique(p, o)

RowDeleted == \E id \in Ids : DeleteUser(id)

RolesEdited == \E id \in Ids, r \in RoleLists : SetRoles(id, r)

StoreEdit == RowDeleted \/ RolesEdited

\* one caller: requests are handled one after the other, while time passes and
\* the table is edited from outside
Next ==
  \/ SignUpStep("p1")
  \/ LoginStep("p1")
  \/ ValidateStep("p1")
  \/ Tick
  \/ StoreEdit

Spec == Init /\ [][Next]_vars

\* signUp invocations racing each other on the table
NextConcurrent ==
  \/ \E p \in Procs : SignUpStep(p)
  \/ RowDeleted

SpecConcurrent == Init /\ [][NextConcurrent]_vars

\* one caller, and a table whose roles column only signUp writes
NextSteady ==
  \/ SignUpStep("p1")
  \/ LoginStep("p1")
  \/ ValidateStep("p1")
  \/ Tick
  \/ RowDeleted

SpecSteady == Init /\ [][NextSteady]_vars

\* one caller, under any of the deployments
SpecConfigured == InitConfigured /\ [][NextSteady]_vars

\* one caller signing up and logging in with passwords of any length
NextLongPasswords ==
  \/ \E dto \in LongSignUpDtos, o \in StoreOutcomes : SignUpReceive("p1", dto, o)
  \/ \E salt \in Salts : SignUpHash("p1", salt)
  \/ \E o \in StoreOutcomes : SignUpCreate("p1", o)
  \/ \E c \in LongLoginDtos, o \in StoreOutcomes : LoginReceive("p1", c, o)
  \/ LoginCompare("p1")

SpecLongPasswords == Init /\ [][NextLongPasswords]_vars

\* invocations of all three handlers running concurrently
NextParallel == \E p \in Procs : SignUpStep(p) \/ LoginStep(p) \/ ValidateStep(p)

SpecParallel == Init /\ [][NextParallel]_vars

(* ---------------- the handlers, whatever the service does --------------- *)
HandlerOps == {"signUp", "login", "validateToken"}

\* the requests handler op may receive
HandlerDtos(op) ==
  IF op = "signUp" THEN SignUpDtos
  ELSE IF op = "login" THEN LoginDtos
  ELSE {[token |-> t] : t \in PresentableTokens}

\* a user as signUp and login return it
ReturnedUser ==
  [id |-> 1, username |-> "alice", email |-> "alice@x.com", roles |-> DefaultRoles]

\* results the service may return to handler op
HandlerResults(op) ==
  IF op = "signUp" THEN {ReturnedUser}
  ELSE IF op = "login"
    THEN {[token |-> JwtSign([userId |-> ReturnedUser.id, roles |-> ReturnedUser.roles],
                             jwt.secret, jwt.expiresIn, now),
           user |-> ReturnedUser]}
  ELSE {InvalidResult,
        [valid |-> TRUE,
         user |-> [userId |-> ReturnedUser.id, roles |-> ReturnedUser.roles]]}

\* the catch block of handler op
HandlerCatch(op, e) ==
  IF op = "signUp" THEN SignUpCatch(e)
  ELSE IF op = "login" THEN LoginCatch(e)
  ELSE ValidateCatch(e)

\* try { result = await this.authService.op(dto) } catch (error) { throw ... }
\* when the service call throws e
HandlerThrows(p, op, dto, e) ==
  /\ req[p].pc = "idle"
  /\ Throw(p, New(op, dto), e, HandlerCatch(op, e))
  /\ UNCHANGED <<users, nextId, now, jwt, issued, signups, verified>>

\* ... and when the service call returns result
HandlerReturns(p, op, dto, result) ==
  /\ req[p].pc = "idle"
  /\ Return(p, New(op, dto), result)
  /\ UNCHANGED <<users, nextId, now, jwt, issued, signups, verified>>

NextHandlers ==
  \/ \E op \in HandlerOps : \E dto \in HandlerDtos(op), e \in ServiceErrors :
        HandlerThrows("p1", op, dto, e)
  \/ \E op \in HandlerOps : \E dto \in HandlerDtos(op), result \in HandlerResults(op) :
        HandlerReturns("p1", op, dto, result)

SpecHandlers == Init /\ [][NextHandlers]_vars

(* ----------------------- RpcExceptionFilter ---------------------------- *)
\* an exception object: rpc tells whether it is an RpcException; status and
\* statusCode are 0 when the exception has no such (truthy) property; payload
\* is the error object an RpcException was built with
NoPayload == [statusCode |-> 0, message |-> "", error |-> "", timestamp |-> 0]

\* new RpcException(payload)
RpcExceptionOf(payload) ==
  [rpc |-> TRUE, name |-> "Error", message |-> payload.message,
   status |-> 0, statusCode |-> 0, payload |-> payload]

\* the RpcException a handler's catch block throws
ThrownByHandler(response) ==
  RpcExceptionOf([statusCode |-> response.statusCode, message |-> response.message,
                  error |-> response.error, timestamp |-> 0])

ExceptionNames ==
  {"UnauthorizedException", "ForbiddenException", "NotFoundException",
   "BadRequestException", "ConflictException", "InternalServerErrorException",
   "Error", "PrismaClientKnownRequestError", ""}

\* what the filter may be handed
CaughtExceptions ==
  [rpc : {FALSE}, name : ExceptionNames, message : {"", "boom"},
   status : {0, 404}, statusCode : {0, 503}, payload : {NoPayload}]
    \cup {ThrownByHandler(HandlerCatch(op, e)) : op \in HandlerOps, e \in ServiceErrors}

\* errorNameToStatusMap[exception.name]; 0 when the name is not in the map
ErrorNameToStatusMap(name) ==
  CASE name = "UnauthorizedException" -> 401
    [] name = "ForbiddenException" -> 403
    [] name = "NotFoundException" -> 404
    [] name = "BadRequestException" -> 400
    [] name = "ConflictException" -> 409
    [] name = "InternalServerErrorException" -> 500
    [] OTHER -> 0

\* an extractStatusCode that looks at statusCode before status
ExtractStatusCodeSwapped(exception) ==
  IF exception.statusCode # 0 THEN exception.statusCode
  ELSE IF exception.status # 0 THEN exception.status
  ELSE IF ErrorNameToStatusMap(exception.name) # 0 THEN ErrorNameToStatusMap(exception.name)
  ELSE 500

\* RpcExceptionFilter.extractStatusCode
ExtractStatusCode(exception) ==
  IF exception.status # 0 THEN exception.status
  ELSE IF exception.statusCode # 0 THEN exception.statusCode
  ELSE IF ErrorNameToStatusMap(exception.name) # 0 THEN ErrorNameToStatusMap(exception.name)
  ELSE 500

\* RpcExceptionFilter.formatError, called at time clock
FormatError(exception, clock) ==
  IF exception.rpc THEN exception
  ELSE RpcExceptionOf(
         [statusCode |-> ExtractStatusCode(exception),
          message |-> IF exception.message # "" THEN exception.message
                      ELSE "Internal server error",
          error |-> IF exception.name # "" THEN exception.name ELSE "Error",
          timestamp |-> clock])

\* RpcExceptionFilter.catch: the filter is handed exception and throws the
\* formatted error to the caller
FilterCatch(p, exception) ==
  /\ req[p].pc = "idle"
  /\ Complete(p, [New("catch", exception) EXCEPT !.resp = FormatError(exception, now)])
  /\ UNCHANGED <<users, nextId, now, jwt, issued, signups, verified>>

NextFilter ==
  \/ \E ex \in CaughtExceptions : FilterCatch("p1", ex)
  \/ Tick

SpecFilter == Init /\ [][NextFilter]_vars

(* ============================== claims ================================= *)
\* the step just taken completed a validateToken / login / signUp invocation
Validated == reply.op = "validateToken"
LoggedIn == reply.op = "login"
SignedUp == reply.op = "signUp"

\* the store failed the query the completed invocation made
StoreFailed == reply.thrown = ErrStoreDown \/ reply.caught = ErrStoreDown

\* the completed validateToken answered valid: true
Accepted == Validated /\ reply.resp.kind = "ok" /\ reply.resp.body.valid

\* C1: whenever validateToken accepts a token, the roles it returns are the
\* roles the row holds in the table at the lookup, whatever the token carries
C1_FreshRoles ==
  Accepted =>
    \E u \in users :
      /\ u.id = reply.dto.token.userId
      /\ reply.resp.body.user.roles = u.roles

\* a token was accepted after the roles of its account had been changed
C1_Witness ==
  /\ Accepted
  /\ reply.dto.token \in issued
  /\ reply.resp.body.user.roles # reply.dto.token.roles

\* C2: a validateToken answered when the token's account has been deleted
\* returns {valid: false, user: null}
C2_DeletedAccountRejected ==
  (Validated /\ reply.dto.token.userId \in DeletedIds) =>
    reply.resp = Reply(InvalidResult)

\* a correctly signed, unexpired token of a deleted account was looked up and
\* rejected
C2_Witness ==
  /\ Validated
  /\ reply.pc = "vt_findUnique"
  /\ ~StoreFailed
  /\ reply.dto.token \in issued
  /\ JwtVerifyError(reply.dto.token, jwt.secret, now) = ""
  /\ reply.dto.token.userId \in DeletedIds
  /\ reply.resp = Reply(InvalidResult)

\* C3: login returns a token only for a row it found under the given email
\* whose stored hash the given password verifies against; when no row has the
\* email or the password does not verify it answers Invalid credentials and
\* issues nothing; every issued token names an account whose password was
\* verified
C3_TokenOnlyAfterVerification ==
  /\ LoggedIn =>
       IF reply.resp.kind = "ok"
         THEN \E u \in reply.user :
                /\ u.email = reply.dto.email
                /\ BcryptCompare(reply.dto.password, u.password)
                /\ reply.resp.body.token \in issued
                /\ reply.resp.body.token.userId = u.id
         ELSE StoreFailed \/ reply.resp = LoginCatch(ErrInvalidCredentials)
  /\ \A t \in issued : t.userId \in verified

\* a login with the right password returned a token
C3_Witness ==
  /\ LoggedIn
  /\ reply.resp.kind = "ok"
  /\ reply.resp.body.token \in issued

\* the two ways a login is refused
EmailNotRegistered == LoggedIn /\ reply.pc = "receive" /\ ~StoreFailed
WrongPassword == LoggedIn /\ reply.pc = "lg_compare" /\ reply.resp.kind = "error"

\* C4: a login refused because the email is not registered and a login refused
\* because the password is wrong give the caller the same response
C4_UniformLoginFailure ==
  (EmailNotRegistered \/ WrongPassword) =>
    reply.resp = RpcException(StatusUnauthorized, "Invalid credentials", "LoginError")

\* a login was refused because no account has the email, while another email
\* is registered
C4_Witness ==
  /\ EmailNotRegistered
  /\ FindByEmail(reply.dto.email) = {}
  /\ users # {}

\* C5: an account created by a signUp that left roles out can log in with the
\* email and password it signed up with, and the token login returns for it
\* validates, while the row exists and the token has not expired, as that
\* account's id with roles ["user"] (no store failure, roles not edited)
C5_SignupLoginValidate ==
  \A u \in users, g \in signups :
    (u.id = g.id /\ g.rolesOmitted /\ ~StoreFailed) =>
      /\ (LoggedIn /\ reply.dto.email = u.email /\ reply.dto.password = g.password) =>
           /\ reply.resp.kind = "ok"
           /\ reply.resp.body.token \in issued
           /\ reply.resp.body.token.userId = g.id
      /\ ( /\ Validated
           /\ reply.dto.token \in issued
           /\ reply.dto.token.userId = g.id
           /\ JwtVerifyError(reply.dto.token, jwt.secret, now) = "" ) =>
           reply.resp = Reply([valid |-> TRUE,
                               user |-> [userId |-> g.id, roles |-> <<"user">>]])

\* the token of an account signed up without roles validated as ["user"]
C5_Witness ==
  /\ Accepted
  /\ reply.dto.token \in issued
  /\ \E g \in signups : g.rolesOmitted /\ g.id = reply.dto.token.userId
  /\ reply.resp.body.user.roles = <<"user">>

\* C6: a signUp whose email a row already has at the existence check is
\* answered Email already in use whatever its username, the table is left as
\* it was, and the invocation goes no further
C6_Step ==
  /\ ( /\ reply'.op = "signUp"
       /\ reply'.pc = "receive"
       /\ ~MissingFields(reply'.dto)
       /\ reply'.thrown # ErrStoreDown
       /\ FindByEmail(reply'.dto.email) # {} ) =>
       /\ reply'.resp = SignUpCatch(ErrEmailInUse)
       /\ users' = users
  /\ \A p \in Procs :
       (req[p].pc = "idle" /\ req'[p].pc = "su_hash") =>
         FindByEmail(req'[p].dto.email) = {}

C6_DuplicateEmailRejected == [][C6_Step]_vars

\* a signUp with a registered email and a username no row has was refused
C6_Witness ==
  /\ SignedUp
  /\ reply.resp = SignUpCatch(ErrEmailInUse)
  /\ \E u \in users : u.email = reply.dto.email
  /\ \A u \in users : u.username # reply.dto.username

\* C7: a signUp whose insert the unique index on email rejects is answered
\* with the same Email already in use failure as a sequential duplicate
C7_RaceLoserGetsEmailInUse ==
  (SignedUp /\ reply.thrown = ErrUniqueConstraint("email")) =>
    reply.resp = SignUpCatch(ErrEmailInUse)

\* C8: no two rows of the users table share an email or a username
C8_UniqueEmailAndUsername ==
  \A u, v \in users :
    u # v => (u.email # v.email /\ u.username # v.username /\ u.id # v.id)

\* two signUps raced past the existence check and the index rejected the loser
C8_Witness ==
  /\ SignedUp
  /\ reply.pc = "su_create"
  /\ reply.thrown = ErrUniqueConstraint("email")
  /\ \E u \in users : u.email = reply.dto.email

\* C9: validateToken always answers with a {valid, user} value, never with an
\* exception, and a string that is no JWT gets valid: false
C9_ValidateNeverRaises ==
  Validated =>
    /\ reply.resp.kind = "ok"
    /\ reply.resp.body.valid \in BOOLEAN
    /\ reply.dto.token.kind # "jwt" => reply.resp = Reply(InvalidResult)

\* a garbage string was validated
C9_Witness == Validated /\ reply.dto.token = Garbage /\ reply.resp.kind = "ok"

\* C10: when the row lookup of validateToken fails, the caller gets an error
C10_StoreFailureSurfaces ==
  (Validated /\ reply.caught = ErrStoreDown) => reply.resp.kind = "error"

\* a controller whose catch block answers a failed signUp with an empty success

\* C11: a signUp or login whose store query or insert failed answers the caller
\* with an error and never a success value; nothing is retried: a signUp awaits
\* at most one findFirst and at most one create, a login at most one findUnique
\* and no create
C11_StoreFailurePropagatesNoRetry ==
  /\ ((SignedUp \/ LoggedIn) /\ reply.thrown = ErrStoreDown) =>
       /\ reply.resp.kind = "error"
       /\ reply.resp.message = ErrStoreDown.message
  /\ \A r \in {req[p] : p \in Procs} \cup {reply} :
       /\ r.op = "signUp" => (r.finds <= 1 /\ r.creates <= 1)
       /\ r.op = "login" => (r.finds <= 1 /\ r.creates = 0)

\* the insert of a signUp failed after its existence query had answered
C11_Witness ==
  /\ SignedUp
  /\ reply.pc = "su_create"
  /\ reply.thrown = ErrStoreDown
  /\ reply.finds = 1
  /\ reply.creates = 1
  /\ reply.resp.kind = "error"

\* the errors jwtService.verify throws for a malformed token, a signature
\* mismatch and an expired token
RejectionCauses ==
  {ErrJwt("jwt malformed"), ErrJwt("invalid signature"), ErrJwt("jwt expired")}

\* C12: a validateToken refused because the token is malformed, because its
\* signature does not match or because it has expired gives the caller one and
\* the same value, {valid: false, user: null}
C12_UniformTokenRejection ==
  (Validated /\ reply.caught \in RejectionCauses) => reply.resp = Reply(InvalidResult)

\* a token this service issued was refused because it had expired
C12_Witness ==
  /\ Validated
  /\ reply.dto.token \in issued
  /\ reply.caught = ErrJwt("jwt expired")
  /\ reply.resp = Reply(InvalidResult)

\* the token lifetime a deployment asks for: its JWT_EXPIRES_IN, or one hour
Lifetime(e) == IF e[2] = 0 THEN 1 ELSE e[2]

\* C13: under every deployment, each token login issues expires at issuance
\* time plus the configured TTL (one hour when none is configured); a
\* validateToken that receives it at or after that time never gets past
\* jwtService.verify and answers {valid: false, user: null}; as the clock never
\* goes back, the token is never accepted again
C13_Step ==
  \A e \in ConfiguredEnvironments :
    jwt = JwtOptions(e[1], e[2]) =>
      /\ now' >= now
      /\ \A t \in issued' : t.exp = t.iat + Lifetime(e)
      /\ \A p \in Procs :
           ( /\ req[p].pc = "idle"
             /\ req'[p].pc = "vt_findUnique"
             /\ req'[p].dto.token \in issued ) =>
             now < req'[p].dto.token.iat + Lifetime(e)
      /\ ( /\ reply'.op = "validateToken"
           /\ reply'.pc = "receive"
           /\ reply'.dto.token \in issued
           /\ now >= reply'.dto.token.iat + Lifetime(e) ) =>
           reply'.resp = Reply(InvalidResult)

C13_ExpiredTokenRejected == [][C13_Step]_vars

\* under a configured TTL of two hours, a token was refused by a validateToken
\* that received it two hours after it was issued
C13_Witness ==
  /\ Validated
  /\ reply.dto.token \in issued
  /\ reply.pc = "receive"
  /\ jwt.expiresIn = 2
  /\ now >= reply.dto.token.iat + 2
  /\ reply.caught = ErrJwt("jwt expired")
  /\ reply.resp = Reply(InvalidResult)

\* C14: the token login signs for {userId, roles} verifies at every time within
\* its TTL and decodes to that same userId and roles; validateToken gets past
\* jwtService.verify only with a token login has issued, and answers
\* {valid: false, user: null} to every other string
C14_IssueVerifyRoundTrip ==
  /\ (LoggedIn /\ reply.resp.kind = "ok") =>
       \A u \in reply.user :
         LET t == reply.resp.body.token
         IN /\ \A clock \in t.iat..(t.iat + jwt.expiresIn - 1) :
                 JwtVerifyError(t, jwt.secret, clock) = ""
            /\ JwtDecoded(t).userId = u.id
            /\ JwtDecoded(t).roles = u.roles
  /\ \A p \in Procs : req[p].pc = "vt_findUnique" => req[p].dto.token \in issued
  /\ (Validated /\ reply.dto.token \notin issued) => reply.resp = Reply(InvalidResult)

\* login issued a token for an account with roles, within its TTL
C14_Witness ==
  /\ LoggedIn
  /\ reply.resp.kind = "ok"
  /\ reply.resp.body.token.roles # <<>>
  /\ JwtVerifyError(reply.resp.body.token, jwt.secret, now) = ""
  /\ JwtDecoded(reply.resp.body.token).roles = reply.resp.body.user.roles

\* a well-formed token signed with another key was presented and refused
C14_ForgedRefused ==
  /\ Validated
  /\ reply.dto.token \in ForgedTokens
  /\ reply.caught = ErrJwt("invalid signature")

\* a signUp request in which username, email or password is empty
HasEmptyField(dto) == \E f \in {"username", "email", "password"} : dto[f] = ""

\* C15: a signUp with an empty username, email or password is answered with
\* the Missing required fields error (status 400) in the step that receives
\* it: it awaits no store lookup and no insert, no invocation carrying such a
\* request is ever in flight towards bcrypt or the store, and the users table
\* is as it was
C15_Step ==
  /\ (reply'.op = "signUp" /\ HasEmptyField(reply'.dto)) =>
       /\ reply'.resp =
            RpcException(StatusBadRequest,
                         "Missing required fields: email, username, password",
                         "SignupError")
       /\ reply'.pc = "receive"
       /\ reply'.finds = 0
       /\ reply'.creates = 0
       /\ users' = users
       /\ nextId' = nextId
  /\ \A p \in Procs : req'[p].op = "signUp" => ~HasEmptyField(req'[p].dto)

C15_EmptyFieldRejectedFirst == [][C15_Step]_vars

\* a signUp with an empty password was refused while the table held a row
C15_Witness ==
  /\ SignedUp
  /\ reply.dto.password = ""
  /\ reply.resp.message = ErrMissingFields.message
  /\ reply.finds = 0
  /\ users # {}

\* C16: the row a successful signUp creates holds ["user"] when the request
\* left roles out and exactly the supplied list when it did not (the empty
\* list included), and the roles in the response are the roles of that row
C16_SignupRoles ==
  (SignedUp /\ reply.resp.kind = "ok") =>
    \E u \in users :
      /\ u.id = reply.resp.body.id
      /\ u.roles = (IF "roles" \in DOMAIN reply.dto THEN reply.dto.roles ELSE <<"user">>)
      /\ reply.resp.body.roles = u.roles

\* a signUp that supplied roles created its account
C16_Witness ==
  /\ SignedUp
  /\ reply.resp.kind = "ok"
  /\ "roles" \in DOMAIN reply.dto
  /\ reply.resp.body.roles = reply.dto.roles
  /\ reply.resp.body.roles # <<"user">>

PublicFields == {"id", "username", "email", "roles"}

\* C17: a signUp or login response carries exactly id, username, email and
\* roles of the row (login adds the token), a validateToken response exactly
\* valid and user, user being null or {userId, roles}; the payload of every
\* issued token decodes to userId and roles (with iat and exp); no response
\* field is named password, and no error message is the submitted password
C17_NoPasswordInResponses ==
  /\ (SignedUp /\ reply.resp.kind = "ok") =>
       /\ DOMAIN reply.resp.body = PublicFields
       /\ \E u \in users : \A f \in PublicFields : reply.resp.body[f] = u[f]
  /\ (LoggedIn /\ reply.resp.kind = "ok") =>
       /\ DOMAIN reply.resp.body = {"token", "user"}
       /\ DOMAIN reply.resp.body.user = PublicFields
       /\ \A u \in reply.user :
            /\ \A f \in PublicFields : reply.resp.body.user[f] = u[f]
            /\ DOMAIN LoginPayload(u) = {"userId", "roles"}
  /\ Validated =>
       /\ DOMAIN reply.resp.body = {"valid", "user"}
       /\ reply.resp.body.valid => DOMAIN reply.resp.body.user = {"userId", "roles"}
       /\ ~reply.resp.body.valid => reply.resp.body.user = NULL
  /\ \A t \in issued : DOMAIN JwtDecoded(t) = {"userId", "roles", "iat", "exp"}
  /\ ((SignedUp \/ LoggedIn) /\ reply.resp.kind = "error") =>
       /\ reply.resp.body = NULL
       /\ reply.resp.message # reply.dto.password

\* login answered for a row that holds a password hash
C17_Witness ==
  /\ LoggedIn
  /\ reply.resp.kind = "ok"
  /\ \E u \in reply.user :
       /\ u.password # NoHash
       /\ "password" \in DOMAIN u
       /\ reply.resp.body.user.id = u.id
  /\ "password" \notin DOMAIN reply.resp.body.user

\* C18: every row of the users table was created by a signUp, and its password
\* column is what bcrypt.hash returned for the password that signUp was given:
\* a bcrypt hash under some salt that bcrypt.compare accepts for that
\* password, never the submitted text
C18_StoredPasswordIsHash ==
  \A u \in users :
    /\ \E g \in signups : g.id = u.id
    /\ \A g \in signups :
         g.id = u.id =>
           /\ u.password.alg = "2b"
           /\ \E salt \in Salts : u.password = BcryptHash(g.password, salt)
           /\ BcryptCompare(g.password, u.password)

\* a signUp has just stored the row of its account
C18_Witness ==
  /\ SignedUp
  /\ reply.resp.kind = "ok"
  /\ \E u \in users :
       /\ u.id = reply.resp.body.id
       /\ u.password.alg = "2b"
       /\ BcryptCompare(reply.dto.password, u.password)

\* C19: the service never issues a token signed with the built-in fallback
\* secret and never accepts a token verified against it
C19_NoFallbackSecret ==
  /\ \A t \in issued : t.sig # FallbackSecret
  /\ Accepted => reply.dto.token.sig # FallbackSecret

\* C20: bcrypt.compare refuses every password other than the one the hash was
\* made from, so a login that succeeds was given the password its account was
\* signed up with
C20_OnlySignupPasswordPasses ==
  (LoggedIn /\ reply.resp.kind = "ok") =>
    \A g \in signups : g.id = reply.resp.body.user.id => g.password = reply.dto.password

\* what a login with dto answers over the table store: success exactly when
\* the row with the email holds a hash of the password
LoginWouldSucceed(dto, store) ==
  \E u \in store : u.email = dto.email /\ BcryptCompare(dto.password, u.password)

\* C22: a step of login or validateToken leaves the users table as it was; a
\* row with a new id appears only in the step in which a signUp succeeds; and
\* the outcome of a login whose email lookup still reads the same, or of a
\* validateToken within the token's TTL, is determined by the request and the
\* table (so repeating the call gives the same outcome), while a token refused
\* by verify stays refused
C22_Step ==
  /\ \A u \in users' :
       (\A v \in users : v.id # u.id) =>
         /\ reply'.op = "signUp"
         /\ reply'.resp.kind = "ok"
         /\ reply'.resp.body.id = u.id
  /\ reply'.op \in {"login", "validateToken"} => (users' = users /\ nextId' = nextId)
  /\ \A p \in Procs :
       (req'[p] # req[p] /\ req'[p].op \in {"login", "validateToken"}) => users' = users
  /\ ( /\ reply'.op = "login"
       /\ reply'.thrown # ErrStoreDown
       /\ reply'.user = {u \in users' : u.email = reply'.dto.email} ) =>
       (reply'.resp.kind = "ok" <=> LoginWouldSucceed(reply'.dto, users'))
  /\ (reply'.op = "validateToken" /\ reply'.caught # ErrStoreDown) =>
       LET t == reply'.dto.token
       IN /\ JwtVerifyError(t, jwt.secret, now') = "" =>
               (reply'.resp.body.valid <=> \E u \in users' : u.id = t.userId)
          /\ reply'.pc = "receive" =>
               /\ ~reply'.resp.body.valid
               /\ \A clock \in now'..(MaxTime + 1) : JwtVerifyError(t, jwt.secret, clock) # ""

C22_ReadOnlyIdempotent == [][C22_Step]_vars

\* a login succeeded for an account that had logged in before, over a table
\* that still holds the row it read
C22_Witness ==
  /\ LoggedIn
  /\ reply.resp.kind = "ok"
  /\ reply.user \subseteq users
  /\ reply.resp.body.token \in issued
  /\ Cardinality(users) = MaxAccounts

\* what login answers, run alone at time clock, when its lookup returns rows
LoginAlone(dto, rows, clock) ==
  IF \E u \in rows : BcryptCompare(dto.password, u.password)
    THEN LET u == CHOOSE v \in rows : TRUE
         IN Reply([token |-> [kind |-> "jwt", userId |-> u.id, roles |-> u.roles,
                              iat |-> clock, exp |-> clock + jwt.expiresIn,
                              sig |-> jwt.secret],
                   user |-> [id |-> u.id, username |-> u.username,
                             email |-> u.email, roles |-> u.roles]])
    ELSE RpcException(StatusUnauthorized, "Invalid credentials", "LoginError")

\* what validateToken answers, run alone, for a token verify accepts when its
\* lookup is made on store
ValidateAlone(t, store) ==
  IF \E u \in store : u.id = t.userId
    THEN LET u == CHOOSE v \in store : v.id = t.userId
         IN Reply([valid |-> TRUE, user |-> [userId |-> u.id, roles |-> u.roles]])
    ELSE Reply(InvalidResult)

\* C23: with invocations of the three handlers interleaved in any way, a step
\* of one invocation leaves the locals of the others alone, each lookup reads
\* the table as it is at that step, and what an invocation answers is what
\* the handler run alone answers for the same request and the same rows
C23_Step ==
  /\ \A p, q \in Procs : (p # q /\ req'[p] # req[p]) => req'[q] = req[q]
  /\ \A p \in Procs :
       (req[p].pc = "idle" /\ req'[p].pc = "lg_compare") =>
         req'[p].user = {u \in users : u.email = req'[p].dto.email}
  /\ (reply'.op = "login" /\ reply'.thrown # ErrStoreDown) =>
       /\ reply'.resp = LoginAlone(reply'.dto, reply'.user, now)
       /\ reply'.user = {u \in users' : u.email = reply'.dto.email} =>
            reply'.resp = LoginAlone(reply'.dto, {u \in users' : u.email = reply'.dto.email}, now)
  /\ (reply'.op = "validateToken" /\ reply'.caught # ErrStoreDown) =>
       IF reply'.pc = "receive"
         THEN /\ JwtVerifyError(reply'.dto.token, jwt.secret, now) # ""
              /\ reply'.resp = Reply(InvalidResult)
         ELSE reply'.resp = ValidateAlone(reply'.dto.token, users)
  /\ (reply'.op = "signUp" /\ reply'.resp.kind = "ok") =>
       /\ reply'.resp.body.username = reply'.dto.username
       /\ reply'.resp.body.email = reply'.dto.email
       /\ reply'.resp.body.id = nextId

C23_NoCrossRequestState == [][C23_Step]_vars

\* a login was answered for one account while another invocation was in
\* flight holding the row of a different account
C23_Witness ==
  /\ LoggedIn
  /\ reply.resp.kind = "ok"
  /\ \E q \in Procs :
       /\ req[q].pc = "lg_compare"
       /\ \E u \in req[q].user : u.id # reply.resp.body.user.id

\* C24: a signUp whose email no row has is not refused by the existence check;
\* when a row has its username at the insert, the insert is rejected by the
\* unique index on username, the caller gets an error (status 400) after one
\* lookup and one insert attempt, and the users table is as it was
C24_Step ==
  /\ ( /\ reply'.op = "signUp"
       /\ reply'.pc = "receive"
       /\ ~HasEmptyField(reply'.dto)
       /\ \A u \in users : u.email # reply'.dto.email ) =>
       reply'.thrown = ErrStoreDown
  /\ ( /\ reply'.op = "signUp"
       /\ reply'.pc = "su_create"
       /\ reply'.thrown # ErrStoreDown
       /\ \E u \in users : u.username = reply'.dto.username
       /\ \A u \in users : u.email # reply'.dto.email ) =>
       /\ reply'.thrown = ErrUniqueConstraint("username")
       /\ reply'.resp.kind = "error"
       /\ reply'.resp.statusCode = StatusBadRequest
       /\ reply'.resp.message = ErrUniqueConstraint("username").message
       /\ reply'.finds = 1
       /\ reply'.creates = 1
       /\ users' = users
       /\ nextId' = nextId

C24_DuplicateUsernameRejected == [][C24_Step]_vars

\* a signUp with an unused email and a taken username had its insert rejected
C24_Witness ==
  /\ SignedUp
  /\ reply.pc = "su_create"
  /\ reply.thrown = ErrUniqueConstraint("username")
  /\ \E u \in users : u.username = reply.dto.username
  /\ \A u \in users : u.email # reply.dto.email

\* C25: a validateToken answers valid: true only from its one row lookup, when
\* the table holds the token's account at that step, and with the id and roles
\* that row has then; an id that has left the table never comes back, so an
\* account absent when the call began is never answered valid: true, however
\* deletions interleave with the call
C25_Step ==
  /\ \A i \in DeletedIds : \A u \in users' : u.id # i
  /\ (reply'.op = "validateToken" /\ reply'.resp.body.valid) =>
       /\ reply'.pc = "vt_findUnique"
       /\ reply'.finds = 1
       /\ reply'.dto.token.userId \notin DeletedIds
       /\ \E u \in users :
            /\ u.id = reply'.dto.token.userId
            /\ reply'.resp.body.user = [userId |-> u.id, roles |-> u.roles]

C25_ValidAtLookupOnly == [][C25_Step]_vars

\* a validateToken that had passed verify looked up an account that was gone,
\* while the table held another account
C25_Witness ==
  /\ Validated
  /\ reply.finds = 1
  /\ reply.caught = NoError
  /\ reply.dto.token.userId \in DeletedIds
  /\ ~reply.resp.body.valid
  /\ users # {}

\* C26: the token login returns carries the id of the account it answered
\* for; whenever validateToken answers valid: true, the userId it returns is
\* the userId carried in the presented token and the id of a row the table
\* holds, so a token never validates as another account
C26_SubjectPreserved ==
  /\ (LoggedIn /\ reply.resp.kind = "ok") =>
       reply.resp.body.token.userId = reply.resp.body.user.id
  /\ Accepted =>
       /\ reply.resp.body.user.userId = reply.dto.token.userId
       /\ \E u \in users : u.id = reply.resp.body.user.userId

\* a token was accepted while the table held another account as well
C26_Witness ==
  /\ Accepted
  /\ reply.dto.token \in issued
  /\ \E u \in users : u.id # reply.dto.token.userId
  /\ reply.resp.body.user.userId = reply.dto.token.userId

\* C27: signUp checks the fields, then queries by email, then hashes, then
\* inserts: an invocation reaches bcrypt.hash only from the step in which its
\* one lookup found no row with the email, reaches the insert only with the
\* hash bcrypt returned, inserts that hash, and a signUp refused for an empty
\* field or an email in use has hashed and inserted nothing
C27_Step ==
  /\ \A p \in Procs :
       /\ (req'[p].pc = "su_hash" /\ req'[p] # req[p]) =>
            /\ req[p].pc = "idle"
            /\ ~HasEmptyField(req'[p].dto)
            /\ \A u \in users : u.email # req'[p].dto.email
            /\ req'[p].finds = 1 /\ req'[p].hashes = 0 /\ req'[p].creates = 0
       /\ (req'[p].pc = "su_create" /\ req'[p] # req[p]) =>
            /\ req[p].pc = "su_hash"
            /\ \E salt \in Salts : req'[p].hashed = BcryptHash(req'[p].dto.password, salt)
            /\ req'[p].finds = 1 /\ req'[p].hashes = 1 /\ req'[p].creates = 0
       /\ (req[p].pc = "su_create" /\ req'[p] # req[p]) =>
            /\ reply'.op = "signUp"
            /\ reply'.finds = 1 /\ reply'.hashes = 1 /\ reply'.creates = 1
            /\ \A u \in users' \ users : u.password = req[p].hashed
  /\ reply'.op = "signUp" =>
       /\ reply'.thrown = ErrMissingFields =>
            (reply'.finds = 0 /\ reply'.hashes = 0 /\ reply'.creates = 0 /\ users' = users)
       /\ reply'.thrown = ErrEmailInUse =>
            (reply'.finds = 1 /\ reply'.hashes = 0 /\ reply'.creates = 0 /\ users' = users)
       /\ reply'.creates = 1 => reply'.hashes = 1
       /\ reply'.hashes = 1 => reply'.finds = 1

C27_SignupOrder == [][C27_Step]_vars

\* a signUp completed its insert after one lookup and one hash
C27_Witness ==
  /\ SignedUp
  /\ reply.resp.kind = "ok"
  /\ reply.finds = 1
  /\ reply.hashes = 1
  /\ reply.creates = 1

\* C28: when its service call throws, a handler answers with an RpcException
\* that carries the error's message: signUp with error SignupError and
\* status 400, login with error LoginError and status 401, each replaced by
\* the error's own statusCode when it has one, validateToken with error
\* TokenValidationError and status 401; it never answers a success value
C28_HandlersWrapErrors ==
  reply.thrown # NoError =>
    /\ reply.resp.kind = "error"
    /\ reply.resp.body = NULL
    /\ reply.resp.message = reply.thrown.message
    /\ reply.op = "signUp" =>
         /\ reply.resp.error = "SignupError"
         /\ reply.resp.statusCode =
              (IF reply.thrown.statusCode # 0 THEN reply.thrown.statusCode ELSE 400)
    /\ reply.op = "login" =>
         /\ reply.resp.error = "LoginError"
         /\ reply.resp.statusCode =
              (IF reply.thrown.statusCode # 0 THEN reply.thrown.statusCode ELSE 401)
    /\ reply.op = "validateToken" =>
         /\ reply.resp.error = "TokenValidationError"
         /\ reply.resp.statusCode = 401

\* the login handler answered an error that carried its own statusCode
C28_Witness ==
  /\ LoggedIn
  /\ reply.thrown \in ErrWithStatus
  /\ reply.resp.statusCode = reply.thrown.statusCode
  /\ reply.resp.error = "LoginError"

\* the status code the filter is to give an exception that is no RpcException
ExpectedStatusCode(ex) ==
  IF ex.status # 0 THEN ex.status
  ELSE IF ex.statusCode # 0 THEN ex.statusCode
  ELSE IF ex.name = "UnauthorizedException" THEN 401
  ELSE IF ex.name = "ForbiddenException" THEN 403
  ELSE IF ex.name = "NotFoundException" THEN 404
  ELSE IF ex.name = "BadRequestException" THEN 400
  ELSE IF ex.name = "ConflictException" THEN 409
  ELSE 500

\* C29: the filter hands an RpcException back unchanged and wraps any other
\* exception in an RpcException whose statusCode is the exception's status,
\* else its statusCode, else the code its name maps to, else 500; formatting
\* the result again, at any time, gives the same result
C29_FilterFormat ==
  reply.op = "catch" =>
    /\ reply.resp.rpc
    /\ reply.dto.rpc => reply.resp = reply.dto
    /\ ~reply.dto.rpc => reply.resp.payload.statusCode = ExpectedStatusCode(reply.dto)
    /\ \A clock \in 0..(MaxTime + 1) : FormatError(reply.resp, clock) = reply.resp

\* an exception with both a status and a statusCode was wrapped some time
\* after startup
C29_Witness ==
  /\ reply.op = "catch"
  /\ ~reply.dto.rpc
  /\ reply.dto.status # 0
  /\ reply.dto.statusCode # 0
  /\ reply.resp.payload.statusCode = reply.dto.status
  /\ now > 0

\* C30: no log record written while a signUp or login is handled contains the
\* submitted password
C30_NoPasswordInLogs ==
  \A r \in {req[p] : p \in Procs} \cup {reply} :
    r.op \in {"signUp", "login"} =>
      \A i \in 1..Len(r.log) :
        /\ r.log[i].text # r.dto.password
        /\ "password" \notin DOMAIN r.log[i].data

====
